---- MODULE Spec2Model ----
(***************************************************************************)
(* FileExecutor (crates/executor/src/file.rs): the dispatch of a Task to   *)
(* one of twelve filesystem handlers inside a sandbox root.                *)
(*                                                                         *)
(* Text the code inspects character by character (paths, file contents,    *)
(* CSV fields) is a sequence of one-character strings: "d/a" is            *)
(* <<"d", "/", "a">>.  Executor and operation names are only compared and  *)
(* stay TLA+ strings.  A JSON value is a tagged record [t, v]; a JSON      *)
(* object is a function from its keys (character sequences) to values.     *)
(***************************************************************************)
EXTENDS Integers, Sequences, FiniteSets, TLC

VARIABLES fs, task, result, calls, handler

vars == <<fs, task, result, calls, handler>>

(***************************************************************************)
(* Bounds of the model.                                                    *)
(***************************************************************************)
\* deepest node of the filesystem tree ("/s/d/a" has depth 3)
MaxDepth == 3
\* longest text content a write task carries
MaxContentLen == 1
\* most data rows a write_csv task carries
MaxRows == 1

(***************************************************************************)
(* Character sequences.                                                    *)
(***************************************************************************)
Last(s) == s[Len(s)]

\* str::contains
Contains(s, pat) ==
    \E i \in 1..(Len(s) - Len(pat) + 1) : SubSeq(s, i, i + Len(pat) - 1) = pat

IsPrefix(p, s) == Len(p) <= Len(s) /\ SubSeq(s, 1, Len(p)) = p

RECURSIVE Flatten(_)
Flatten(ss) == IF ss = <<>> THEN <<>> ELSE Head(ss) \o Flatten(Tail(ss))

RECURSIVE SeqsUpTo(_, _)
SeqsUpTo(S, n) ==
    IF n = 0 THEN {<<>>}
    ELSE LET shorter == SeqsUpTo(S, n - 1)
         IN  shorter \cup {Append(s, c) : s \in shorter, c \in S}

(***************************************************************************)
(* JSON values (serde_json::Value) and the two result channels.            *)
(***************************************************************************)
JNull == [t |-> "null", v |-> <<>>]
JBool(b) == [t |-> "bool", v |-> b]
JNum(n) == [t |-> "num", v |-> n]
JStr(s) == [t |-> "str", v |-> s]
JArr(a) == [t |-> "arr", v |-> a]
JObj(f) == [t |-> "obj", v |-> f]

\* Option::None of ExecutionResult.output and .error
None == [t |-> "none", v |-> <<>>]

\* Result::Ok and Result::Err(Error::<kind>(msg))
Ok(v) == [ok |-> TRUE, kind |-> "Ok", val |-> v]
Err(kind, msg) == [ok |-> FALSE, kind |-> kind, val |-> msg]

\* every handler builds its ExecutionResult with success: true, error: None
ExecutionResult(output) == [success |-> TRUE, output |-> output, error |-> None]

(***************************************************************************)
(* Path resolution (the sandbox).                                          *)
(***************************************************************************)
base_path == <<"/", "s">>

is_absolute(p) == p # <<>> /\ Head(p) = "/"

\* PathBuf::join: an absolute argument replaces the base
Join(base, p) ==
    IF is_absolute(p) THEN p
    ELSE IF base # <<>> /\ Last(base) # "/" THEN base \o <<"/">> \o p
    ELSE base \o p

\* a check of the leading characters only
resolve_path_leading(path) ==
    IF IsPrefix(<<".", ".">>, path)
    THEN Err("PermissionDenied", <<"Path traversal not allowed">>)
    ELSE Ok(Join(base_path, path))

resolve_path(path) ==
    IF Contains(path, <<".", ".">>)
    THEN Err("PermissionDenied", <<"Path traversal not allowed">>)
    ELSE Ok(Join(base_path, path))

(***************************************************************************)
(* The filesystem: a function from the nodes that exist (a node is the     *)
(* sequence of names from the root) to a directory or a file with its     *)
(* bytes.  The operators below are the std/tokio calls the handlers make,  *)
(* with their Linux semantics.                                             *)
(***************************************************************************)
Dir == [dir |-> TRUE, data |-> <<>>]
File(data) == [dir |-> FALSE, data |-> data]

RECURSIVE Comps(_, _)
Comps(s, cur) ==
    IF s = <<>> THEN (IF cur = <<>> THEN <<>> ELSE <<cur>>)
    ELSE IF Head(s) = "/"
         THEN (IF cur = <<>> THEN <<>> ELSE <<cur>>) \o Comps(Tail(s), <<>>)
         ELSE Comps(Tail(s), Append(cur, Head(s)))

Dot == <<".">>
DotDot == <<".", ".">>

RECURSIVE Walk(_, _)
Walk(comps, acc) ==
    IF comps = <<>> THEN acc
    ELSE IF Head(comps) = Dot THEN Walk(Tail(comps), acc)
    ELSE IF Head(comps) = DotDot
         THEN Walk(Tail(comps), IF acc = <<>> THEN acc ELSE SubSeq(acc, 1, Len(acc) - 1))
         ELSE Walk(Tail(comps), Append(acc, Head(comps)))

\* the node a path string names
NodeOf(p) == Walk(Comps(p, <<>>), <<>>)

\* the last component is "." or "..": rename(2) refuses such a path
EndsInDot(p) ==
    LET c == Comps(p, <<>>) IN c # <<>> /\ Last(c) \in {Dot, DotDot}

\* the path can only name a directory
MustDir(p) == p # <<>> /\ (Last(p) = "/" \/ EndsInDot(p))

Parent(n) == SubSeq(n, 1, Len(n) - 1)

IsDir(f, n) == n \in DOMAIN f /\ f[n].dir
IsFile(f, n) == n \in DOMAIN f /\ ~f[n].dir

\* every directory on the way to node n exists
PrefixOK(f, n) == \A i \in 0..(Len(n) - 1) : IsDir(f, SubSeq(n, 1, i))

PathErr(f, n) ==
    IF \E i \in 0..(Len(n) - 1) : IsFile(f, SubSeq(n, 1, i))
    THEN <<"NotADirectory">> ELSE <<"NotFound">>

Children(f, n) == {m \in DOMAIN f : Len(m) = Len(n) + 1 /\ IsPrefix(n, m)}
Subtree(f, n) == {m \in DOMAIN f : IsPrefix(n, m)}

Put(f, n, v) == [m \in DOMAIN f \cup {n} |-> IF m = n THEN v ELSE f[m]]
Remove(f, S) == [m \in DOMAIN f \ S |-> f[m]]

IoOk(v, f) == [ok |-> TRUE, val |-> v, fs |-> f]
IoErr(tag, f) == [ok |-> FALSE, val |-> tag, fs |-> f]

\* a path that can be opened as a file for writing (File::create)
CreateErr(f, p) ==
    LET n == NodeOf(p) IN
    IF ~PrefixOK(f, n) THEN PathErr(f, n)
    ELSE IF IsDir(f, n) THEN <<"IsADirectory">>
    ELSE IF MustDir(p) THEN (IF n \in DOMAIN f THEN <<"NotADirectory">> ELSE <<"IsADirectory">>)
    ELSE <<>>

\* a path that can be opened as a file for reading (File::open and read)
OpenErr(f, p) ==
    LET n == NodeOf(p) IN
    IF ~PrefixOK(f, n) THEN PathErr(f, n)
    ELSE IF n \notin DOMAIN f THEN <<"NotFound">>
    ELSE IF f[n].dir THEN <<"IsADirectory">>
    ELSE IF MustDir(p) THEN <<"NotADirectory">>
    ELSE <<>>

fs_read_to_string(f, p) ==
    IF OpenErr(f, p) # <<>> THEN IoErr(OpenErr(f, p), f)
    ELSE IoOk(f[NodeOf(p)].data, f)

\* a file opened without truncation: bytes past the new data stay
fs_write_no_truncate(f, p, data) ==
    LET n == NodeOf(p)
        old == IF IsFile(f, n) THEN f[n].data ELSE <<>>
    IN  IF CreateErr(f, p) # <<>> THEN IoErr(CreateErr(f, p), f)
        ELSE IoOk(<<>>, Put(f, n, File(data \o SubSeq(old, Len(data) + 1, Len(old)))))

fs_write(f, p, data) ==
    IF CreateErr(f, p) # <<>> THEN IoErr(CreateErr(f, p), f)
    ELSE IoOk(<<>>, Put(f, NodeOf(p), File(data)))

fs_remove_file(f, p) ==
    IF OpenErr(f, p) # <<>> THEN IoErr(OpenErr(f, p), f)
    ELSE IoOk(<<>>, Remove(f, {NodeOf(p)}))

\* std::fs::copy opens `from`, then creates/truncates `to`, then copies the
\* bytes: when both name the same file it is truncated before it is read
fs_copy(f, from, to) ==
    LET nf == NodeOf(from)
        nt == NodeOf(to)
    IN  IF OpenErr(f, from) # <<>> THEN IoErr(OpenErr(f, from), f)
        ELSE IF CreateErr(f, to) # <<>> THEN IoErr(CreateErr(f, to), f)
        ELSE IoOk(<<>>, Put(f, nt, File(IF nt = nf THEN <<>> ELSE f[nf].data)))

\* rename(2)
fs_rename(f, from, to) ==
    LET nf == NodeOf(from)
        nt == NodeOf(to)
        moved == [m \in (DOMAIN f \ (Subtree(f, nf) \cup {nt}))
                        \cup {nt \o SubSeq(k, Len(nf) + 1, Len(k)) : k \in Subtree(f, nf)} |->
                    IF IsPrefix(nt, m) THEN f[nf \o SubSeq(m, Len(nt) + 1, Len(m))] ELSE f[m]]
    IN  IF ~PrefixOK(f, nf) THEN IoErr(PathErr(f, nf), f)
        ELSE IF nf \notin DOMAIN f THEN IoErr(<<"NotFound">>, f)
        ELSE IF ~PrefixOK(f, nt) THEN IoErr(PathErr(f, nt), f)
        ELSE IF EndsInDot(from) \/ EndsInDot(to) \/ nf = <<>> \/ nt = <<>>
             THEN IoErr(<<"ResourceBusy">>, f)
        ELSE IF ~f[nf].dir /\ (MustDir(from) \/ (MustDir(to) /\ ~IsDir(f, nt)))
             THEN IoErr(<<"NotADirectory">>, f)
        ELSE IF nf = nt THEN IoOk(<<>>, f)
        ELSE IF f[nf].dir /\ IsPrefix(nf, nt) THEN IoErr(<<"InvalidInput">>, f)
        ELSE IF f[nf].dir /\ IsFile(f, nt) THEN IoErr(<<"NotADirectory">>, f)
        ELSE IF f[nf].dir /\ IsDir(f, nt) /\ Children(f, nt) # {}
             THEN IoErr(<<"DirectoryNotEmpty">>, f)
        ELSE IF ~f[nf].dir /\ IsDir(f, nt) THEN IoErr(<<"IsADirectory">>, f)
        ELSE IoOk(<<>>, moved)

\* only the entries that are files
fs_read_dir_files(f, p) ==
    LET n == NodeOf(p) IN
    IF ~PrefixOK(f, n) THEN IoErr(PathErr(f, n), f)
    ELSE IF n \notin DOMAIN f THEN IoErr(<<"NotFound">>, f)
    ELSE IF ~f[n].dir THEN IoErr(<<"NotADirectory">>, f)
    ELSE IoOk({Last(m) : m \in {c \in Children(f, n) : ~f[c].dir}}, f)

\* the names of the entries of a directory
fs_read_dir(f, p) ==
    LET n == NodeOf(p) IN
    IF ~PrefixOK(f, n) THEN IoErr(PathErr(f, n), f)
    ELSE IF n \notin DOMAIN f THEN IoErr(<<"NotFound">>, f)
    ELSE IF ~f[n].dir THEN IoErr(<<"NotADirectory">>, f)
    ELSE IoOk({Last(m) : m \in Children(f, n)}, f)

\* create the directory and every missing ancestor; an existing file on the
\* way (or at the path) is an error
fs_create_dir_all(f, p) ==
    LET n == NodeOf(p)
        pre == {SubSeq(n, 1, i) : i \in 0..Len(n)}
    IN  IF \E m \in pre : IsFile(f, m)
        THEN IoErr(IF IsFile(f, n) THEN <<"AlreadyExists">> ELSE <<"NotADirectory">>, f)
        ELSE IoOk(<<>>, [m \in DOMAIN f \cup pre |-> IF m \in pre THEN Dir ELSE f[m]])

\* Path::is_file in the place of Path::exists
path_is_file(f, p) ==
    LET n == NodeOf(p) IN
    PrefixOK(f, n) /\ n \in DOMAIN f /\ ~f[n].dir /\ ~MustDir(p)

\* Path::exists: the metadata of the path can be read
path_exists(f, p) ==
    LET n == NodeOf(p) IN
    PrefixOK(f, n) /\ n \in DOMAIN f /\ (MustDir(p) => f[n].dir)

(***************************************************************************)
(* Decoding task.params into a handler's Params struct                     *)
(* (serde_json::from_value with #[derive(Deserialize)]).  A shape is the   *)
(* sequence of the struct's fields, each <<name, type>>.                   *)
(***************************************************************************)
HasType(v, ty) ==
    CASE ty = "String" -> v.t = "str"
      [] ty = "Value" -> TRUE
      [] ty = "VecString" ->
            v.t = "arr" /\ \A i \in 1..Len(v.v) : v.v[i].t = "str"
      [] ty = "VecVecString" ->
            v.t = "arr" /\ \A i \in 1..Len(v.v) :
                v.v[i].t = "arr" /\ \A j \in 1..Len(v.v[i].v) : v.v[i].v[j].t = "str"

\* the Rust value of a well-typed JSON value
Raw(v, ty) ==
    CASE ty = "String" -> v.v
      [] ty = "Value" -> v
      [] ty = "VecString" -> [i \in 1..Len(v.v) |-> v.v[i].v]
      [] ty = "VecVecString" ->
            [i \in 1..Len(v.v) |-> [j \in 1..Len(v.v[i].v) |-> v.v[i].v[j].v]]

FieldNames(shape) == {shape[i][1] : i \in 1..Len(shape)}
FieldIndex(shape, name) == CHOOSE i \in 1..Len(shape) : shape[i][1] = name

\* a JSON object is decoded by field name (unknown fields are ignored), a
\* JSON array by position, anything else is refused
Decode(shape, p) ==
    IF p.t = "obj" THEN
        IF \E i \in 1..Len(shape) :
               shape[i][1] \in DOMAIN p.v /\ ~HasType(p.v[shape[i][1]], shape[i][2])
        THEN Err("InvalidConfig", <<"invalid type">>)
        ELSE IF \E i \in 1..Len(shape) : shape[i][1] \notin DOMAIN p.v
        THEN LET i == CHOOSE k \in 1..Len(shape) :
                        /\ shape[k][1] \notin DOMAIN p.v
                        /\ \A j \in 1..(k - 1) : shape[j][1] \in DOMAIN p.v
             IN  Err("InvalidConfig", <<"missing field">> \o shape[i][1])
        ELSE Ok([n \in FieldNames(shape) |->
                    Raw(p.v[n], shape[FieldIndex(shape, n)][2])])
    ELSE IF p.t = "arr" THEN
        LET bad == {i \in 1..Len(shape) :
                        i > Len(p.v) \/ ~HasType(p.v[i], shape[i][2])}
        IN  IF bad # {}
            THEN LET i == CHOOSE k \in bad : \A j \in bad : k <= j
                 IN  Err("InvalidConfig",
                         IF i > Len(p.v) THEN <<"invalid length">> ELSE <<"invalid type">>)
            ELSE IF Len(p.v) > Len(shape) THEN Err("InvalidConfig", <<"invalid length">>)
            ELSE Ok([n \in FieldNames(shape) |->
                        Raw(p.v[FieldIndex(shape, n)], shape[FieldIndex(shape, n)][2])])
    ELSE Err("InvalidConfig", <<"invalid type">>)

\* the keys of the params and output objects
K_path == <<"p", "a", "t", "h">>
K_content == <<"c", "o", "n", "t", "e", "n", "t">>
K_from == <<"f", "r", "o", "m">>
K_to == <<"t", "o">>
K_data == <<"d", "a", "t", "a">>
K_headers == <<"h", "e", "a", "d", "e", "r", "s">>
K_rows == <<"r", "o", "w", "s">>
K_files == <<"f", "i", "l", "e", "s">>
K_exists == <<"e", "x", "i", "s", "t", "s">>

PathShape == << <<K_path, "String">> >>
WriteShape == << <<K_path, "String">>, <<K_content, "String">> >>
FromToShape == << <<K_from, "String">>, <<K_to, "String">> >>
WriteJsonShape == << <<K_path, "String">>, <<K_data, "Value">> >>
WriteCsvShape ==
    << <<K_path, "String">>, <<K_headers, "VecString">>, <<K_rows, "VecVecString">> >>

(***************************************************************************)
(* The CSV codec as the handlers configure it (csv::Writer and             *)
(* csv::Reader with their defaults: comma, double quote, quoting when      *)
(* necessary, records of equal length, the first record read as headers).  *)
(***************************************************************************)
NewLines == {"\n", "\r"}

csv_needs_quotes(field) ==
    \E i \in 1..Len(field) : field[i] \in {",", "\""} \cup NewLines

csv_field(field) ==
    IF csv_needs_quotes(field)
    THEN <<"\"">>
         \o Flatten([i \in 1..Len(field) |->
                        IF field[i] = "\"" THEN <<"\"", "\"">> ELSE <<field[i]>>])
         \o <<"\"">>
    ELSE field

\* a record that would be written as no bytes at all is written as ""
csv_record(rec) ==
    LET body == Flatten([i \in 1..Len(rec) |->
                            IF i = 1 THEN csv_field(rec[i]) ELSE <<",">> \o csv_field(rec[i])])
    IN  IF body = <<>> THEN <<"\"", "\"", "\n">> ELSE body \o <<"\n">>

\* write_record for the headers, then for each row
csv_write(headers, rows) ==
    IF \E i \in 1..Len(rows) : Len(rows[i]) # Len(headers)
    THEN Err("Io", <<"UnequalLengths">>)
    ELSE Ok(csv_record(headers) \o Flatten([i \in 1..Len(rows) |-> csv_record(rows[i])]))

\* the reader's automaton; st is where it stands: "rec" before a record,
\* "field" before a field, "unq" in an unquoted field, "q" in a quoted
\* field, "qq" after a quote inside a quoted field
RECURSIVE csv_parse(_, _, _, _)
csv_parse(s, st, field, rec) ==
    IF s = <<>> THEN (IF st = "rec" THEN <<>> ELSE <<Append(rec, field)>>)
    ELSE LET c == Head(s)
             r == Tail(s)
         IN  IF st = "rec" /\ c \in NewLines THEN csv_parse(r, "rec", <<>>, <<>>)
             ELSE IF st = "q"
                  THEN IF c = "\"" THEN csv_parse(r, "qq", field, rec)
                       ELSE csv_parse(r, "q", Append(field, c), rec)
             ELSE IF c = "," THEN csv_parse(r, "field", <<>>, Append(rec, field))
             ELSE IF c \in NewLines
                  THEN <<Append(rec, field)>> \o csv_parse(r, "rec", <<>>, <<>>)
             ELSE IF c = "\"" /\ st \in {"rec", "field"} THEN csv_parse(r, "q", <<>>, rec)
             ELSE IF c = "\"" /\ st = "qq" THEN csv_parse(r, "q", Append(field, c), rec)
             ELSE csv_parse(r, "unq", Append(field, c), rec)

\* headers() then records()
csv_read(content) ==
    LET recs == csv_parse(content, "rec", <<>>, <<>>)
        headers == IF recs = <<>> THEN <<>> ELSE Head(recs)
        rows == IF recs = <<>> THEN <<>> ELSE Tail(recs)
    IN  IF \E i \in 1..Len(rows) : Len(rows[i]) # Len(headers)
        THEN Err("Io", <<"UnequalLengths">>)
        ELSE Ok([headers |-> headers, rows |-> rows])

(***************************************************************************)
(* The JSON text codec (serde_json::to_string_pretty and from_str) over    *)
(* null, booleans, natural numbers, strings, arrays and objects.           *)
(***************************************************************************)
\* the characters of the model in byte order (object keys are kept sorted)
Ascii ==
    <<"\t", "\n", "\r", " ", "\"", ",", ".", "/", "0", "1", "2", "3", "4", "5", "6",
      "7", "8", "9", ":", "A", "[", "\\", "]", "a", "b", "c", "d", "e", "f", "g",
      "h", "i", "k", "l", "n", "o", "p", "r", "s", "t", "u", "v", "w", "x", "y",
      "{", "}">>

Ord(c) == CHOOSE i \in 1..Len(Ascii) : Ascii[i] = c

RECURSIVE Less(_, _)
Less(a, b) ==
    IF b = <<>> THEN FALSE
    ELSE IF a = <<>> THEN TRUE
    ELSE IF Head(a) = Head(b) THEN Less(Tail(a), Tail(b))
    ELSE Ord(Head(a)) < Ord(Head(b))

RECURSIVE SortedKeys(_)
SortedKeys(S) ==
    IF S = {} THEN <<>>
    ELSE LET k == CHOOSE x \in S : \A y \in S \ {x} : Less(x, y)
         IN  <<k>> \o SortedKeys(S \ {k})

Digits == <<"0", "1", "2", "3", "4", "5", "6", "7", "8", "9">>
IsDigit(c) == \E i \in 1..10 : Digits[i] = c
DigitVal(c) == (CHOOSE i \in 1..10 : Digits[i] = c) - 1

RECURSIVE json_number(_)
json_number(n) ==
    IF n < 10 THEN <<Digits[n + 1]>> ELSE json_number(n \div 10) \o <<Digits[(n % 10) + 1]>>

json_escape(c) ==
    IF c = "\"" THEN <<"\\", "\"">>
    ELSE IF c = "\\" THEN <<"\\", "\\">>
    ELSE IF c = "\n" THEN <<"\\", "n">>
    ELSE IF c = "\r" THEN <<"\\", "r">>
    ELSE IF c = "\t" THEN <<"\\", "t">>
    ELSE <<c>>

json_string(s) ==
    <<"\"">> \o Flatten([i \in 1..Len(s) |-> json_escape(s[i])]) \o <<"\"">>

Indent(lvl) == [i \in 1..(2 * lvl) |-> " "]

RECURSIVE json_pretty(_, _)
json_pretty(v, lvl) ==
    IF v.t = "null" THEN <<"n", "u", "l", "l">>
    ELSE IF v.t = "bool"
         THEN (IF v.v THEN <<"t", "r", "u", "e">> ELSE <<"f", "a", "l", "s", "e">>)
    ELSE IF v.t = "num" THEN json_number(v.v)
    ELSE IF v.t = "str" THEN json_string(v.v)
    ELSE IF v.t = "arr"
         THEN IF v.v = <<>> THEN <<"[", "]">>
              ELSE <<"[", "\n">>
                   \o Flatten([i \in 1..Len(v.v) |->
                          Indent(lvl + 1) \o json_pretty(v.v[i], lvl + 1)
                          \o (IF i < Len(v.v) THEN <<",", "\n">> ELSE <<"\n">>)])
                   \o Indent(lvl) \o <<"]">>
    ELSE LET keys == SortedKeys(DOMAIN v.v)
         IN  IF keys = <<>> THEN <<"{", "}">>
             ELSE <<"{", "\n">>
                  \o Flatten([i \in 1..Len(keys) |->
                         Indent(lvl + 1) \o json_string(keys[i]) \o <<":", " ">>
                         \o json_pretty(v.v[keys[i]], lvl + 1)
                         \o (IF i < Len(keys) THEN <<",", "\n">> ELSE <<"\n">>)])
                  \o Indent(lvl) \o <<"}">>

to_string_pretty(v) == json_pretty(v, 0)

\* the parser: each step returns the value read and the text left
Parsed(v, rest) == [ok |-> TRUE, val |-> v, rest |-> rest]
NoParse == [ok |-> FALSE, val |-> <<>>, rest |-> <<>>]

RECURSIVE SkipWs(_)
SkipWs(s) ==
    IF s # <<>> /\ Head(s) \in {" ", "\n", "\t", "\r"} THEN SkipWs(Tail(s)) ELSE s

RECURSIVE json_chars(_, _)
json_chars(s, acc) ==
    IF s = <<>> THEN NoParse
    ELSE IF Head(s) = "\"" THEN Parsed(acc, Tail(s))
    ELSE IF Head(s) \in {"\n", "\r", "\t"} THEN NoParse
    ELSE IF Head(s) = "\\"
         THEN IF Len(s) < 2 THEN NoParse
              ELSE IF s[2] \in {"\"", "\\", "/"} THEN json_chars(Tail(Tail(s)), Append(acc, s[2]))
              ELSE IF s[2] = "n" THEN json_chars(Tail(Tail(s)), Append(acc, "\n"))
              ELSE IF s[2] = "r" THEN json_chars(Tail(Tail(s)), Append(acc, "\r"))
              ELSE IF s[2] = "t" THEN json_chars(Tail(Tail(s)), Append(acc, "\t"))
              ELSE NoParse
    ELSE json_chars(Tail(s), Append(acc, Head(s)))

RECURSIVE json_digits(_, _)
json_digits(s, n) ==
    IF s # <<>> /\ IsDigit(Head(s)) THEN json_digits(Tail(s), 10 * n + DigitVal(Head(s)))
    ELSE Parsed(JNum(n), s)

Literal(s, word, v) == IF IsPrefix(word, s) THEN Parsed(v, SubSeq(s, Len(word) + 1, Len(s))) ELSE NoParse

RECURSIVE json_value(_)
RECURSIVE json_elems(_, _)
RECURSIVE json_members(_, _)

json_value(s0) ==
    LET s == SkipWs(s0) IN
    IF s = <<>> THEN NoParse
    ELSE IF Head(s) = "\""
         THEN LET r == json_chars(Tail(s), <<>>)
              IN  IF r.ok THEN Parsed(JStr(r.val), r.rest) ELSE NoParse
    ELSE IF Head(s) = "["
         THEN LET s1 == SkipWs(Tail(s))
              IN  IF s1 # <<>> /\ Head(s1) = "]" THEN Parsed(JArr(<<>>), Tail(s1))
                  ELSE json_elems(s1, <<>>)
    ELSE IF Head(s) = "{"
         THEN LET s1 == SkipWs(Tail(s))
              IN  IF s1 # <<>> /\ Head(s1) = "}" THEN Parsed(JObj(<<>>), Tail(s1))
                  ELSE json_members(s1, <<>>)
    ELSE IF Head(s) = "n" THEN Literal(s, <<"n", "u", "l", "l">>, JNull)
    ELSE IF Head(s) = "t" THEN Literal(s, <<"t", "r", "u", "e">>, JBool(TRUE))
    ELSE IF Head(s) = "f" THEN Literal(s, <<"f", "a", "l", "s", "e">>, JBool(FALSE))
    ELSE IF Head(s) = "0" THEN Parsed(JNum(0), Tail(s))
    ELSE IF IsDigit(Head(s)) THEN json_digits(s, 0)
    ELSE NoParse

json_elems(s, acc) ==
    LET r == json_value(s)
        s1 == SkipWs(r.rest)
    IN  IF ~r.ok \/ s1 = <<>> THEN NoParse
        ELSE IF Head(s1) = "," THEN json_elems(Tail(s1), Append(acc, r.val))
        ELSE IF Head(s1) = "]" THEN Parsed(JArr(Append(acc, r.val)), Tail(s1))
        ELSE NoParse

\* a repeated key keeps its last value
json_members(s0, acc) ==
    LET s == SkipWs(s0) IN
    IF s = <<>> \/ Head(s) # "\"" THEN NoParse
    ELSE LET k == json_chars(Tail(s), <<>>)
             s1 == SkipWs(k.rest)
         IN  IF ~k.ok \/ s1 = <<>> \/ Head(s1) # ":" THEN NoParse
             ELSE LET r == json_value(Tail(s1))
                      s2 == SkipWs(r.rest)
                      more == [x \in DOMAIN acc \cup {k.val} |->
                                  IF x = k.val THEN r.val ELSE acc[x]]
                  IN  IF ~r.ok \/ s2 = <<>> THEN NoParse
                      ELSE IF Head(s2) = "," THEN json_members(Tail(s2), more)
                      ELSE IF Head(s2) = "}" THEN Parsed(JObj(more), Tail(s2))
                      ELSE NoParse

\* serde_json::from_str: one value, then nothing but white space
from_str(s) ==
    LET r == json_value(s) IN
    IF r.ok /\ SkipWs(r.rest) = <<>> THEN Ok(r.val)
    ELSE Err("Serialization", <<"syntax error">>)

(***************************************************************************)
(* The handlers.  Each returns what execute returns, the filesystem it     *)
(* leaves and the filesystem calls it made, in order.                      *)
(***************************************************************************)
Out(res, f, cs) == [result |-> res, fs |-> f, calls |-> cs]

Call(fn, p) == [fn |-> fn, path |-> p, to |-> <<>>]
Call2(fn, from, to) == [fn |-> fn, path |-> from, to |-> to]

\* the ? on a filesystem call: std::io::Error becomes Error::Io
IoError(io) == Err("Io", io.val)

name == "file"

\* a comparison that ignores case
validate_nocase(t) ==
    IF t.executor \notin {name, "File"}
    THEN Err("InvalidConfig", <<"Wrong executor: expected 'file', got '", t.executor, "'">>)
    ELSE Ok(<<>>)

validate(t) ==
    IF t.executor # name
    THEN Err("InvalidConfig", <<"Wrong executor: expected 'file', got '", t.executor, "'">>)
    ELSE Ok(<<>>)

\* an I/O failure reported as a result with success = false
read_file_soft(f, t) ==
    LET params == Decode(PathShape, t.params) IN
    IF ~params.ok THEN Out(params, f, <<>>)
    ELSE LET full_path == resolve_path(params.val[K_path]) IN
    IF ~full_path.ok THEN Out(full_path, f, <<>>)
    ELSE LET content == fs_read_to_string(f, full_path.val)
             cs == <<Call("read_to_string", full_path.val)>>
         IN  IF ~content.ok
             THEN Out(Ok([success |-> FALSE, output |-> None, error |-> JStr(content.val)]), f, cs)
             ELSE Out(Ok(ExecutionResult(JObj(K_content :> JStr(content.val)))), f, cs)

read_file(f, t) ==
    LET params == Decode(PathShape, t.params) IN
    IF ~params.ok THEN Out(params, f, <<>>)
    ELSE LET full_path == resolve_path(params.val[K_path]) IN
    IF ~full_path.ok THEN Out(full_path, f, <<>>)
    ELSE LET content == fs_read_to_string(f, full_path.val)
             cs == <<Call("read_to_string", full_path.val)>>
         IN  IF ~content.ok THEN Out(IoError(content), f, cs)
             ELSE Out(Ok(ExecutionResult(JObj(K_content :> JStr(content.val)))), f, cs)

read_csv(f, t) ==
    LET params == Decode(PathShape, t.params) IN
    IF ~params.ok THEN Out(params, f, <<>>)
    ELSE LET full_path == resolve_path(params.val[K_path]) IN
    IF ~full_path.ok THEN Out(full_path, f, <<>>)
    ELSE LET content == fs_read_to_string(f, full_path.val)
             cs == <<Call("read_to_string", full_path.val)>>
         IN  IF ~content.ok THEN Out(IoError(content), f, cs)
             ELSE LET doc == csv_read(content.val)
                  IN  IF ~doc.ok THEN Out(doc, f, cs)
                      ELSE Out(Ok(ExecutionResult(JObj(
                                  (K_headers :> JArr([i \in 1..Len(doc.val.headers) |->
                                                        JStr(doc.val.headers[i])]))
                                  @@ (K_rows :> JArr([i \in 1..Len(doc.val.rows) |->
                                        JArr([j \in 1..Len(doc.val.rows[i]) |->
                                                JStr(doc.val.rows[i][j])])]))))),
                               f, cs)

read_json(f, t) ==
    LET params == Decode(PathShape, t.params) IN
    IF ~params.ok THEN Out(params, f, <<>>)
    ELSE LET full_path == resolve_path(params.val[K_path]) IN
    IF ~full_path.ok THEN Out(full_path, f, <<>>)
    ELSE LET content == fs_read_to_string(f, full_path.val)
             cs == <<Call("read_to_string", full_path.val)>>
         IN  IF ~content.ok THEN Out(IoError(content), f, cs)
             ELSE LET json == from_str(content.val)
                  IN  IF ~json.ok THEN Out(json, f, cs)
                      ELSE Out(Ok(ExecutionResult(json.val)), f, cs)

\* the path resolved as soon as it is found, before the params are decoded
write_file_path_first(f, t) ==
    LET params == Decode(WriteShape, t.params)
        early == IF t.params.t = "obj" /\ K_path \in DOMAIN t.params.v
                    /\ t.params.v[K_path].t = "str"
                 THEN resolve_path(t.params.v[K_path].v) ELSE Ok(<<>>)
    IN
    IF ~early.ok THEN Out(early, f, <<>>)
    ELSE IF ~params.ok THEN Out(params, f, <<>>)
    ELSE LET full_path == resolve_path(params.val[K_path]) IN
    IF ~full_path.ok THEN Out(full_path, f, <<>>)
    ELSE LET io == fs_write(f, full_path.val, params.val[K_content])
             cs == <<Call("write", full_path.val)>>
         IN  IF ~io.ok THEN Out(IoError(io), f, cs)
             ELSE Out(Ok(ExecutionResult(JObj(K_path :> JStr(full_path.val)))), io.fs, cs)

write_file(f, t) ==
    LET params == Decode(WriteShape, t.params) IN
    IF ~params.ok THEN Out(params, f, <<>>)
    ELSE LET full_path == resolve_path(params.val[K_path]) IN
    IF ~full_path.ok THEN Out(full_path, f, <<>>)
    ELSE LET io == fs_write(f, full_path.val, params.val[K_content])
             cs == <<Call("write", full_path.val)>>
         IN  IF ~io.ok THEN Out(IoError(io), f, cs)
             ELSE Out(Ok(ExecutionResult(JObj(K_path :> JStr(full_path.val)))), io.fs, cs)

delete_file(f, t) ==
    LET params == Decode(PathShape, t.params) IN
    IF ~params.ok THEN Out(params, f, <<>>)
    ELSE LET full_path == resolve_path(params.val[K_path]) IN
    IF ~full_path.ok THEN Out(full_path, f, <<>>)
    ELSE LET io == fs_remove_file(f, full_path.val)
             cs == <<Call("remove_file", full_path.val)>>
         IN  IF ~io.ok THEN Out(IoError(io), f, cs)
             ELSE Out(Ok(ExecutionResult(None)), io.fs, cs)

FromToOutput(from_path, to_path) ==
    JObj((K_from :> JStr(from_path)) @@ (K_to :> JStr(to_path)))

copy_file(f, t) ==
    LET params == Decode(FromToShape, t.params) IN
    IF ~params.ok THEN Out(params, f, <<>>)
    ELSE LET from_path == resolve_path(params.val[K_from]) IN
    IF ~from_path.ok THEN Out(from_path, f, <<>>)
    ELSE LET to_path == resolve_path(params.val[K_to]) IN
    IF ~to_path.ok THEN Out(to_path, f, <<>>)
    ELSE LET io == fs_copy(f, from_path.val, to_path.val)
             cs == <<Call2("copy", from_path.val, to_path.val)>>
         IN  IF ~io.ok THEN Out(IoError(io), f, cs)
             ELSE Out(Ok(ExecutionResult(FromToOutput(from_path.val, to_path.val))), io.fs, cs)

move_file(f, t) ==
    LET params == Decode(FromToShape, t.params) IN
    IF ~params.ok THEN Out(params, f, <<>>)
    ELSE LET from_path == resolve_path(params.val[K_from]) IN
    IF ~from_path.ok THEN Out(from_path, f, <<>>)
    ELSE LET to_path == resolve_path(params.val[K_to]) IN
    IF ~to_path.ok THEN Out(to_path, f, <<>>)
    ELSE LET io == fs_rename(f, from_path.val, to_path.val)
             cs == <<Call2("rename", from_path.val, to_path.val)>>
         IN  IF ~io.ok THEN Out(IoError(io), f, cs)
             ELSE Out(Ok(ExecutionResult(FromToOutput(from_path.val, to_path.val))), io.fs, cs)

\* the orders in which a directory can hand out its entries
Orderings(S) ==
    {o \in [1..Cardinality(S) -> S] : \A i, j \in 1..Cardinality(S) : o[i] = o[j] => i = j}

\* the entries list_dir will be handed (none when it fails before read_dir)
ListEntries(f, t) ==
    LET params == Decode(PathShape, t.params) IN
    IF ~params.ok THEN {}
    ELSE LET full_path == resolve_path(params.val[K_path]) IN
    IF ~full_path.ok THEN {}
    ELSE LET io == fs_read_dir(f, full_path.val) IN IF io.ok THEN io.val ELSE {}

\* order: the order in which next_entry yields the entries
list_dir(f, t, order) ==
    LET params == Decode(PathShape, t.params) IN
    IF ~params.ok THEN Out(params, f, <<>>)
    ELSE LET full_path == resolve_path(params.val[K_path]) IN
    IF ~full_path.ok THEN Out(full_path, f, <<>>)
    ELSE LET entries == fs_read_dir(f, full_path.val)
             cs == <<Call("read_dir", full_path.val)>>
         IN  IF ~entries.ok THEN Out(IoError(entries), f, cs)
             ELSE Out(Ok(ExecutionResult(JObj(
                         K_files :> JArr([i \in 1..Len(order) |-> JStr(order[i])])))),
                      f, cs)

write_json(f, t) ==
    LET params == Decode(WriteJsonShape, t.params) IN
    IF ~params.ok THEN Out(params, f, <<>>)
    ELSE LET full_path == resolve_path(params.val[K_path]) IN
    IF ~full_path.ok THEN Out(full_path, f, <<>>)
    ELSE LET json_string_ == to_string_pretty(params.val[K_data])
             io == fs_write(f, full_path.val, json_string_)
             cs == <<Call("write", full_path.val)>>
         IN  IF ~io.ok THEN Out(IoError(io), f, cs)
             ELSE Out(Ok(ExecutionResult(JObj(K_path :> JStr(full_path.val)))), io.fs, cs)

write_csv(f, t) ==
    LET params == Decode(WriteCsvShape, t.params) IN
    IF ~params.ok THEN Out(params, f, <<>>)
    ELSE LET full_path == resolve_path(params.val[K_path]) IN
    IF ~full_path.ok THEN Out(full_path, f, <<>>)
    ELSE LET data == csv_write(params.val[K_headers], params.val[K_rows]) IN
    IF ~data.ok THEN Out(data, f, <<>>)
    ELSE LET io == fs_write(f, full_path.val, data.val)
             cs == <<Call("write", full_path.val)>>
         IN  IF ~io.ok THEN Out(IoError(io), f, cs)
             ELSE Out(Ok(ExecutionResult(JObj(K_path :> JStr(full_path.val)))), io.fs, cs)

create_dir(f, t) ==
    LET params == Decode(PathShape, t.params) IN
    IF ~params.ok THEN Out(params, f, <<>>)
    ELSE LET full_path == resolve_path(params.val[K_path]) IN
    IF ~full_path.ok THEN Out(full_path, f, <<>>)
    ELSE LET io == fs_create_dir_all(f, full_path.val)
             cs == <<Call("create_dir_all", full_path.val)>>
         IN  IF ~io.ok THEN Out(IoError(io), f, cs)
             ELSE Out(Ok(ExecutionResult(JObj(K_path :> JStr(full_path.val)))), io.fs, cs)

exists(f, t) ==
    LET params == Decode(PathShape, t.params) IN
    IF ~params.ok THEN Out(params, f, <<>>)
    ELSE LET full_path == resolve_path(params.val[K_path]) IN
    IF ~full_path.ok THEN Out(full_path, f, <<>>)
    ELSE Out(Ok(ExecutionResult(JObj(K_exists :> JBool(path_exists(f, full_path.val))))),
             f, <<Call("exists", full_path.val)>>)

(***************************************************************************)
(* execute: validate, then the match on task.operation.                    *)
(***************************************************************************)
\* a match without the arm for "exists"
Dispatch_no_exists(operation) ==
    CASE operation = "read" -> "read_file"
      [] operation = "read_csv" -> "read_csv"
      [] operation = "read_json" -> "read_json"
      [] operation = "write" -> "write_file"
      [] operation = "delete" -> "delete_file"
      [] operation = "move" -> "move_file"
      [] operation = "copy" -> "copy_file"
      [] operation = "list" -> "list_dir"
      [] operation = "write_json" -> "write_json"
      [] operation = "write_csv" -> "write_csv"
      [] operation = "create_dir" -> "create_dir"
      [] OTHER -> "unknown"

Dispatch(operation) ==
    CASE operation = "read" -> "read_file"
      [] operation = "read_csv" -> "read_csv"
      [] operation = "read_json" -> "read_json"
      [] operation = "write" -> "write_file"
      [] operation = "delete" -> "delete_file"
      [] operation = "move" -> "move_file"
      [] operation = "copy" -> "copy_file"
      [] operation = "list" -> "list_dir"
      [] operation = "write_json" -> "write_json"
      [] operation = "write_csv" -> "write_csv"
      [] operation = "create_dir" -> "create_dir"
      [] operation = "exists" -> "exists"
      [] OTHER -> "unknown"

\* where execute takes the task: "rejected" by validate, a handler, or the
\* default arm of the match
Route(t) == IF ~validate(t).ok THEN "rejected" ELSE Dispatch(t.operation)

\* what execute returns without entering a handler
validate_failed(f, t) == Out(validate(t), f, <<>>)

unknown_operation(f, t) ==
    Out(Err("InvalidConfig", <<"Unknown operation: ", t.operation>>), f, <<>>)

(***************************************************************************)
(* The tasks the callers submit.                                           *)
(***************************************************************************)
Task(executor, operation, params) ==
    [executor |-> executor, operation |-> operation, params |-> params]

P_a == <<"a">>
P_d == <<"d">>
P_da == <<"d", "/", "a">>
P_here == <<".">>
P_abs == <<"/", "x">>
P_up == <<".", ".", "/", "x">>
P_mid == <<"a", ".", ".", "b">>
P_end == <<"d", "/", ".", ".">>

\* paths that contain ".." at the start, in the middle of a name, at the end
TraversalPaths == {P_up, P_mid, P_end}
\* paths resolve_path accepts
PlainPaths == {P_a, P_d, P_da, P_here, P_abs}
Paths == PlainPaths \cup TraversalPaths

Contents == SeqsUpTo({"h"}, MaxContentLen)

SupportedOps ==
    {"read", "read_csv", "read_json", "write", "delete", "move", "copy", "list",
     "write_json", "write_csv", "create_dir", "exists"}
UnknownOps == {"chmod", "Read"}
OtherExecutors == {"http", "File"}

PathParams(p) == JObj(K_path :> JStr(p))
WriteParams(p, c) == JObj((K_path :> JStr(p)) @@ (K_content :> JStr(c)))
FromToParams(p, q) == JObj((K_from :> JStr(p)) @@ (K_to :> JStr(q)))
WriteJsonParams(p, d) == JObj((K_path :> JStr(p)) @@ (K_data :> d))
StrArr(ss) == JArr([i \in 1..Len(ss) |-> JStr(ss[i])])
WriteCsvParams(p, h, r) ==
    JObj((K_path :> JStr(p)) @@ (K_headers :> StrArr(h))
         @@ (K_rows :> JArr([i \in 1..Len(r) |-> StrArr(r[i])])))

SomeData == JObj(<<"k">> :> JStr(<<"v">>))
SomeHeaders == <<<<"n">>, <<"g">>>>
SomeRows == <<<<<<"A">>, <<"3">>>>>>

\* the well-formed params of an operation over the given paths
ParamsFor(op, ps) ==
    IF op \in {"copy", "move"} THEN {FromToParams(p, q) : p \in ps, q \in ps}
    ELSE IF op = "write" THEN {WriteParams(p, c) : p \in ps, c \in Contents}
    ELSE IF op = "write_json" THEN {WriteJsonParams(p, SomeData) : p \in ps}
    ELSE IF op = "write_csv" THEN {WriteCsvParams(p, SomeHeaders, SomeRows) : p \in ps}
    ELSE {PathParams(p) : p \in ps}

WellFormed(ops, ps) == UNION {{Task(name, op, q) : q \in ParamsFor(op, ps)} : op \in ops}

\* one task for each way through execute that the tasks of a specification
\* would otherwise leave out
CoverTasks ==
    {Task(name, op, PathParams(P_up)) : op \in {"read_csv", "read_json"}}
    \cup {Task(name, "write_json", WriteJsonParams(P_up, SomeData)),
          Task(name, "write_csv", WriteCsvParams(P_up, SomeHeaders, SomeRows)),
          Task(name, "chmod", PathParams(P_a)),
          Task("http", "read", PathParams(P_a))}

\* the tasks of Spec: the plain file operations with well-formed params,
\* over paths inside the sandbox and one absolute path outside it
InsidePaths == {P_a, P_d, P_da}

FromToPairs == (InsidePaths \X InsidePaths) \cup {<<P_here, P_d>>, <<P_d, P_here>>}

Tasks ==
    WellFormed({"read", "write", "delete", "exists"}, InsidePaths \cup {P_abs})
    \cup WellFormed({"list", "create_dir", "exists"}, InsidePaths \cup {P_here})
    \cup {Task(name, op, FromToParams(pq[1], pq[2])) :
              op \in {"copy", "move"}, pq \in FromToPairs}
    \cup CoverTasks

(***************************************************************************)
(* The state machine: the sandbox starts empty, and each step is one       *)
(* execute call run to its end.  task and result are the last call and     *)
(* what it returned, calls the filesystem calls it made, handler where     *)
(* execute took it.                                                        *)
(***************************************************************************)
NoTask == Task("", "", JNull)
Idle == [ok |-> FALSE, kind |-> "Idle", val |-> <<>>]

Init ==
    /\ fs = [n \in {<<>>, NodeOf(base_path)} |-> Dir]
    /\ task = NoTask
    /\ result = Idle
    /\ calls = <<>>
    /\ handler = "idle"

Apply(t, h, out) ==
    /\ \A n \in DOMAIN out.fs : Len(n) <= MaxDepth
    /\ fs' = out.fs
    /\ task' = t
    /\ result' = out.result
    /\ calls' = out.calls
    /\ handler' = h

Rejected(T) ==
    \E t \in T : Route(t) = "rejected" /\ Apply(t, "rejected", validate_failed(fs, t))

ReadFile(T) ==
    \E t \in T : Route(t) = "read_file" /\ Apply(t, "read_file", read_file(fs, t))

ReadCsv(T) ==
    \E t \in T : Route(t) = "read_csv" /\ Apply(t, "read_csv", read_csv(fs, t))

ReadJson(T) ==
    \E t \in T : Route(t) = "read_json" /\ Apply(t, "read_json", read_json(fs, t))

WriteFile(T) ==
    \E t \in T : Route(t) = "write_file" /\ Apply(t, "write_file", write_file(fs, t))

DeleteFile(T) ==
    \E t \in T : Route(t) = "delete_file" /\ Apply(t, "delete_file", delete_file(fs, t))

MoveFile(T) ==
    \E t \in T : Route(t) = "move_file" /\ Apply(t, "move_file", move_file(fs, t))

CopyFile(T) ==
    \E t \in T : Route(t) = "copy_file" /\ Apply(t, "copy_file", copy_file(fs, t))

\* the directory hands out its entries in any order
ListDir(T) ==
    \E t \in T :
        /\ Route(t) = "list_dir"
        /\ \E order \in Orderings(ListEntries(fs, t)) :
               Apply(t, "list_dir", list_dir(fs, t, order))

WriteJson(T) ==
    \E t \in T : Route(t) = "write_json" /\ Apply(t, "write_json", write_json(fs, t))

WriteCsv(T) ==
    \E t \in T : Route(t) = "write_csv" /\ Apply(t, "write_csv", write_csv(fs, t))

CreateDir(T) ==
    \E t \in T : Route(t) = "create_dir" /\ Apply(t, "create_dir", create_dir(fs, t))

Exists(T) ==
    \E t \in T : Route(t) = "exists" /\ Apply(t, "exists", exists(fs, t))

UnknownOperation(T) ==
    \E t \in T : Route(t) = "unknown" /\ Apply(t, "unknown", unknown_operation(fs, t))

NextOn(T) ==
    \/ Rejected(T)
    \/ ReadFile(T)
    \/ ReadCsv(T)
    \/ ReadJson(T)
    \/ WriteFile(T)
    \/ DeleteFile(T)
    \/ MoveFile(T)
    \/ CopyFile(T)
    \/ ListDir(T)
    \/ WriteJson(T)
    \/ WriteCsv(T)
    \/ CreateDir(T)
    \/ Exists(T)
    \/ UnknownOperation(T)

Next == NextOn(Tasks)

Spec == Init /\ [][Next]_vars

(***************************************************************************)
(* The same machine under other task sets.                                 *)
(***************************************************************************)
\* SpecTraversal: every operation on paths that contain "..", given as an
\* object and as an array, beside a few tasks that fill the sandbox
TraversalPairs ==
    (TraversalPaths \X {P_a}) \cup ({P_a} \X TraversalPaths) \cup {<<P_up, P_end>>}

TraversalTasks ==
    WellFormed(SupportedOps \ {"copy", "move"}, TraversalPaths)
    \cup {Task(name, op, FromToParams(pq[1], pq[2])) :
              op \in {"copy", "move"}, pq \in TraversalPairs}
    \cup {Task(name, "read", JArr(<<JStr(P_mid)>>)),
          Task(name, "move", JArr(<<JStr(P_a), JStr(P_up)>>))}
    \cup WellFormed({"write", "create_dir", "delete"}, {P_a, P_d})
    \cup {Task(name, "chmod", PathParams(P_up)), Task("http", "read", PathParams(P_up))}

NextTraversal == NextOn(TraversalTasks)

SpecTraversal == Init /\ [][NextTraversal]_vars

\* the params of SpecValidate and SpecShapes: of the right shape for some
\* operation, or of no operation's shape
ShapeParams ==
    {PathParams(P_a), PathParams(P_up),
     WriteParams(P_a, <<"h">>),
     FromToParams(P_a, P_d),
     WriteJsonParams(P_a, SomeData),
     WriteCsvParams(P_a, SomeHeaders, SomeRows),
     JObj(<<>>),
     JObj(K_path :> JNum(1)),
     JObj((K_path :> JStr(P_up)) @@ (K_content :> JNum(1))),
     JObj(K_from :> JStr(P_up)),
     JObj((K_path :> JStr(P_a)) @@ (K_headers :> JArr(<<JNum(1)>>)) @@ (K_rows :> JArr(<<>>))),
     JObj((K_path :> JStr(P_a)) @@ (K_headers :> JArr(<<>>)) @@ (K_rows :> JArr(<<JStr(P_a)>>))),
     JNull,
     JStr(P_a),
     JArr(<<>>),
     JArr(<<JStr(P_a)>>),
     JArr(<<JStr(P_d), JStr(P_a)>>)}

AllOps == SupportedOps \cup UnknownOps

\* SpecValidate: tasks addressed to another executor, beside a few
\* addressed to this one
ValidateTasks ==
    {Task(e, op, q) : e \in OtherExecutors, op \in AllOps, q \in ShapeParams}
    \cup WellFormed(SupportedOps, {P_a})
    \cup {Task(name, "chmod", PathParams(P_a))}

NextValidate == NextOn(ValidateTasks)

SpecValidate == Init /\ [][NextValidate]_vars

\* SpecShapes: every operation name with every params
ShapeTasks ==
    {Task(name, op, q) : op \in AllOps, q \in ShapeParams}
    \cup {Task("http", "read", PathParams(P_a))}

NextShapes == NextOn(ShapeTasks)

SpecShapes == Init /\ [][NextShapes]_vars

\* SpecCsv: CSV documents written and read back
CsvHeaders == {<<>>, <<<<>>>>, <<<<"n">>>>, <<<<"n">>, <<"q", "\"", "\n">>>>}
CsvRowSet == {<<>>, <<<<"x", ",">>>>, <<<<"A">>, <<"3">>>>}
CsvTexts == {<<"n", ",", "g", "\n", "A", ",", "3">>, <<"n", "\r", "\n", "\"", "A">>}

CsvTasks ==
    {Task(name, "write_csv", WriteCsvParams(P_a, h, r)) :
        h \in CsvHeaders, r \in SeqsUpTo(CsvRowSet, MaxRows)}
    \cup {Task(name, "write", WriteParams(P_a, c)) : c \in CsvTexts}
    \cup WellFormed(SupportedOps \ {"write", "write_csv", "copy", "move"}, {P_a})
    \cup {Task(name, op, FromToParams(P_a, P_d)) : op \in {"copy", "move"}}
    \cup {Task(name, "chmod", PathParams(P_a)), Task("http", "read", PathParams(P_a))}

NextCsv == NextOn(CsvTasks)

SpecCsv == Init /\ [][NextCsv]_vars

(***************************************************************************)
(* What the claims speak of.                                               *)
(***************************************************************************)
Executed == handler # "idle"

\* the Params struct of each operation
ShapeOf(op) ==
    IF op \in {"copy", "move"} THEN FromToShape
    ELSE IF op = "write" THEN WriteShape
    ELSE IF op = "write_json" THEN WriteJsonShape
    ELSE IF op = "write_csv" THEN WriteCsvShape
    ELSE PathShape

\* the params give every field of the operation's struct with its type: as
\* an object by name, or as an array in the order of the fields
WellShaped(t) ==
    LET shape == ShapeOf(t.operation)
        p == t.params
    IN  \/ /\ p.t = "obj"
           /\ \A i \in 1..Len(shape) :
                 shape[i][1] \in DOMAIN p.v /\ HasType(p.v[shape[i][1]], shape[i][2])
        \/ /\ p.t = "arr"
           /\ Len(p.v) = Len(shape)
           /\ \A i \in 1..Len(shape) : HasType(p.v[i], shape[i][2])

\* the JSON value given for field k
Field(t, k) ==
    IF t.params.t = "obj" THEN t.params.v[k]
    ELSE t.params.v[FieldIndex(ShapeOf(t.operation), k)]

Arg(t, k) == Field(t, k).v

PathKeys(op) == IF op \in {"copy", "move"} THEN {K_from, K_to} ELSE {K_path}

\* a task for this executor, with a supported operation and params of its shape
Proper(t) == t.executor = name /\ t.operation \in SupportedOps /\ WellShaped(t)

ProperOp(t, op) == t.executor = name /\ t.operation = op /\ WellShaped(t)

GivenTraversal(t) ==
    Proper(t) /\ \E k \in PathKeys(t.operation) : Contains(Arg(t, k), <<".", ".">>)

\* the node the path given for field k names under the sandbox root
Target(t, k) == NodeOf(Join(base_path, Arg(t, k)))

Output(r) == r.val.output

(***************************************************************************)
(* C1: a task of this executor whose params have the operation's shape and *)
(* whose path (path, or from or to of copy and move) contains ".." fails   *)
(* with PermissionDenied, makes no filesystem call and leaves the          *)
(* filesystem as it was.                                                   *)
(***************************************************************************)
C1_TraversalDenied ==
    [][GivenTraversal(task') =>
          /\ ~result'.ok
          /\ result'.kind = "PermissionDenied"
          /\ calls' = <<>>
          /\ fs' = fs]_vars

\* a move whose `to` contains "..", while `from` is a file that exists
C1_Witness ==
    /\ ProperOp(task, "move")
    /\ Arg(task, K_from) = P_a
    /\ Arg(task, K_to) = P_up
    /\ result.kind = "PermissionDenied"
    /\ IsFile(fs, Target(task, K_from))

(***************************************************************************)
(* C2: every path handed to a filesystem call lies under base_path.        *)
(* The code returns an absolute input path as it is, so this fails.        *)
(***************************************************************************)
\* Path::starts_with
UnderBase(p) == IsPrefix(Comps(base_path, <<>>), Comps(p, <<>>))

C2_Confined ==
    \A i \in 1..Len(calls) :
        /\ UnderBase(calls[i].path)
        /\ calls[i].fn \in {"copy", "rename"} => UnderBase(calls[i].to)

(***************************************************************************)
(* C3: a task whose executor is not "file" is refused by validate with     *)
(* InvalidConfig, whatever its operation and params; no handler is         *)
(* entered, no filesystem call is made, the filesystem is as it was.       *)
(***************************************************************************)
C3_WrongExecutor ==
    [][task'.executor # name =>
          /\ ~validate(task').ok
          /\ validate(task').kind = "InvalidConfig"
          /\ result' = validate(task')
          /\ handler' = "rejected"
          /\ calls' = <<>>
          /\ fs' = fs]_vars

\* a well-formed write for another executor, refused while the file exists
C3_Witness ==
    /\ task = Task("http", "write", WriteParams(P_a, <<"h">>))
    /\ handler = "rejected"
    /\ result.kind = "InvalidConfig"
    /\ IsFile(fs, NodeOf(Join(base_path, P_a)))

(***************************************************************************)
(* C4: for a task of this executor, an operation outside the twelve        *)
(* supported names fails with InvalidConfig naming the operation, whatever *)
(* the params, and each supported name goes to its own handler, never to   *)
(* the unknown-operation arm.                                              *)
(***************************************************************************)
HandlerOf(op) ==
    CASE op = "read" -> "read_file"
      [] op = "read_csv" -> "read_csv"
      [] op = "read_json" -> "read_json"
      [] op = "write" -> "write_file"
      [] op = "delete" -> "delete_file"
      [] op = "move" -> "move_file"
      [] op = "copy" -> "copy_file"
      [] op = "list" -> "list_dir"
      [] op = "write_json" -> "write_json"
      [] op = "write_csv" -> "write_csv"
      [] op = "create_dir" -> "create_dir"
      [] op = "exists" -> "exists"

C4_Dispatch ==
    (Executed /\ task.executor = name) =>
        /\ task.operation \notin SupportedOps =>
              /\ handler = "unknown"
              /\ result.kind = "InvalidConfig"
              /\ result.val = <<"Unknown operation: ", task.operation>>
              /\ calls = <<>>
        /\ task.operation \in SupportedOps =>
              /\ handler = HandlerOf(task.operation)
              /\ handler # "unknown"
              /\ \A op \in SupportedOps \ {task.operation} : HandlerOf(op) # handler

\* an unknown operation carrying params that would fit write_csv
C4_Witness ==
    /\ task = Task(name, "chmod", WriteCsvParams(P_a, SomeHeaders, SomeRows))
    /\ handler = "unknown"
    /\ result.kind = "InvalidConfig"

(***************************************************************************)
(* C5: a successful write{path: P, content: C} followed by read{path: P}   *)
(* returns a result whose output is {content: C}: the content of the most  *)
(* recent write, whatever the file held before.                            *)
(***************************************************************************)
C5_WriteReadRoundTrip ==
    [][(/\ ProperOp(task, "write")
        /\ result.ok
        /\ ProperOp(task', "read")
        /\ Arg(task', K_path) = Arg(task, K_path)) =>
          /\ result'.ok
          /\ result'.val = ExecutionResult(JObj(K_content :> Field(task, K_content)))]_vars

\* a read of d/a that returns the content "h" written there
C5_Witness ==
    /\ ProperOp(task, "read")
    /\ Arg(task, K_path) = P_da
    /\ result.ok
    /\ Output(result) = JObj(K_content :> JStr(<<"h">>))
    /\ calls = <<Call("read_to_string", <<"/", "s", "/", "d", "/", "a">>)>>

(***************************************************************************)
(* C6: an execute call that returns an ExecutionResult returns one with    *)
(* success = true and error = None; a call refused by validate, sent to    *)
(* the unknown-operation arm or failing in a handler returns an Error of   *)
(* one of the kinds InvalidConfig, PermissionDenied, Io, Serialization.    *)
(***************************************************************************)
C6_SuccessOrError ==
    Executed =>
        /\ result.ok => (result.val.success = TRUE /\ result.val.error = None)
        /\ ~result.ok =>
              result.kind \in {"InvalidConfig", "PermissionDenied", "Io", "Serialization"}
        /\ handler \in {"rejected", "unknown"} => ~result.ok

\* a read of a file that does not exist: the failure is an Error
C6_Witness ==
    /\ ProperOp(task, "read")
    /\ ~result.ok
    /\ result.kind = "Io"
    /\ calls # <<>>

(***************************************************************************)
(* C7: exists{path} succeeds with exists = false when nothing is at the    *)
(* path, and with exists = true right after a successful write or          *)
(* create_dir of the same path.                                            *)
(***************************************************************************)
C7_Exists ==
    [][(ProperOp(task', "exists") /\ ~Contains(Arg(task', K_path), <<".", ".">>)) =>
          /\ result'.ok
          /\ Target(task', K_path) \notin DOMAIN fs =>
                Output(result') = JObj(K_exists :> JBool(FALSE))
          /\ (/\ (ProperOp(task, "write") \/ ProperOp(task, "create_dir"))
              /\ result.ok
              /\ Arg(task, K_path) = Arg(task', K_path)) =>
                Output(result') = JObj(K_exists :> JBool(TRUE))]_vars

\* exists on a directory that create_dir made
C7_Witness ==
    /\ ProperOp(task, "exists")
    /\ Arg(task, K_path) = P_d
    /\ result.ok
    /\ Output(result) = JObj(K_exists :> JBool(TRUE))
    /\ IsDir(fs, Target(task, K_path))

(***************************************************************************)
(* C8: a successful list{path} returns in files each name of the entries   *)
(* of the directory once and nothing else, and it shows what the call      *)
(* before it did: the entry a write, copy, move or create_dir made in that *)
(* directory is listed, the entry a delete or move took away is not.       *)
(***************************************************************************)
\* the nodes the call made, and the nodes it took away
Made(t, r) ==
    IF ~r.ok \/ ~Proper(t) THEN {}
    ELSE IF t.operation \in {"write", "create_dir", "write_json", "write_csv"}
         THEN {Target(t, K_path)}
    ELSE IF t.operation \in {"copy", "move"} THEN {Target(t, K_to)}
    ELSE {}

Taken(t, r) ==
    IF ~r.ok \/ ~Proper(t) THEN {}
    ELSE IF t.operation = "delete" THEN {Target(t, K_path)}
    ELSE IF t.operation = "move" /\ Target(t, K_from) # Target(t, K_to)
         THEN {Target(t, K_from)}
    ELSE {}

Listed(r) == {Output(r).v[K_files].v[i].v : i \in 1..Len(Output(r).v[K_files].v)}

C8_ListExact ==
    [][(ProperOp(task', "list") /\ result'.ok) =>
          LET dir == Target(task', K_path) IN
          /\ Listed(result') = {Last(m) : m \in {n \in DOMAIN fs' : n # <<>> /\ Parent(n) = dir}}
          /\ Len(Output(result').v[K_files].v) = Cardinality(Listed(result'))
          /\ \A n \in Made(task, result) :
                (n # <<>> /\ Parent(n) = dir) => Last(n) \in Listed(result')
          /\ \A n \in Taken(task, result) :
                (n # <<>> /\ Parent(n) = dir) => Last(n) \notin Listed(result')]_vars

\* the sandbox root listed with a file and a directory in it
C8_Witness ==
    /\ ProperOp(task, "list")
    /\ Arg(task, K_path) = P_here
    /\ result.ok
    /\ Listed(result) = {<<"a">>, <<"d">>}
    /\ IsFile(fs, Target(task, K_path) \o <<<<"a">>>>)
    /\ IsDir(fs, Target(task, K_path) \o <<<<"d">>>>)

(***************************************************************************)
(* C9: a successful write_csv{path, headers: H, rows: R} followed by       *)
(* read_csv{path} returns exactly {headers: H, rows: R}.  With no header   *)
(* fields the document written is the one record "", read back as one      *)
(* empty header, so this fails.                                            *)
(***************************************************************************)
C9_CsvRoundTrip ==
    [][(/\ ProperOp(task, "write_csv")
        /\ result.ok
        /\ ProperOp(task', "read_csv")
        /\ Arg(task', K_path) = Arg(task, K_path)) =>
          /\ result'.ok
          /\ Output(result') =
                JObj((K_headers :> Field(task, K_headers)) @@ (K_rows :> Field(task, K_rows)))]_vars

(***************************************************************************)
(* C10: a task of this executor with a supported operation and params      *)
(* that lack a field of the operation's struct, give it another type, or   *)
(* are no object at all fails with InvalidConfig before any path is        *)
(* resolved and any filesystem call made, also when a path in the params   *)
(* contains "..", and the filesystem is as it was.                         *)
(***************************************************************************)
Mismatch(t) == t.executor = name /\ t.operation \in SupportedOps /\ ~WellShaped(t)

C10_ShapeMismatch ==
    [][Mismatch(task') =>
          /\ ~result'.ok
          /\ result'.kind = "InvalidConfig"
          /\ calls' = <<>>
          /\ fs' = fs]_vars

\* a write with a path that contains ".." and no content
C10_Witness ==
    /\ task = Task(name, "write", PathParams(P_up))
    /\ Mismatch(task)
    /\ result.kind = "InvalidConfig"
    /\ handler = "write_file"

(***************************************************************************)
(* C11: after a successful copy{from, to} or move{from, to} of a file,     *)
(* reading `to` yields the content `from` held before the call; after a    *)
(* copy `from` is still there with that content, after a move `from` is    *)
(* gone; every other path is as it was before the call.  Where `from` and  *)
(* `to` name the same file the claim's parts about a move cannot both be   *)
(* met (`to` readable, `from` gone), and rename leaves the file in place:  *)
(* there the move is held only to keep the content readable.  Any          *)
(* violation of this statement is a violation of the claim read to the     *)
(* letter.                                                                 *)
(***************************************************************************)
Transfer(t, op, f) == ProperOp(t, op) /\ IsFile(f, Target(t, K_from))

ReadOf(f, p) == read_file(f, Task(name, "read", PathParams(p))).result

OthersUnchanged(f, g, t) ==
    \A n \in (DOMAIN f \cup DOMAIN g) \ {Target(t, K_from), Target(t, K_to)} :
        n \in DOMAIN f /\ n \in DOMAIN g /\ f[n] = g[n]

C11_TransferPreserves ==
    [][((Transfer(task', "copy", fs) \/ Transfer(task', "move", fs)) /\ result'.ok) =>
          LET held == fs[Target(task', K_from)].data IN
          /\ ReadOf(fs', Arg(task', K_to)) =
                Ok(ExecutionResult(JObj(K_content :> JStr(held))))
          /\ task'.operation = "copy" => fs'[Target(task', K_from)] = File(held)
          /\ (task'.operation = "move" /\ Target(task', K_from) # Target(task', K_to)) =>
                Target(task', K_from) \notin DOMAIN fs'
          /\ OthersUnchanged(fs, fs', task')]_vars

====
